---------------------------- MODULE Spec2Model ----------------------------
(***************************************************************************)
(* A model of sudoku_solver.py: the value codec, the input validator, the   *)
(* exact-cover constraint model handed to the ILP backend, the extraction   *)
(* of a solution, and the batch reader / writer around them.                *)
(*                                                                          *)
(* Python values are modelled with their type: a cell of a grid is either   *)
(* an int or a str, and a str is the sequence of its character codes, so    *)
(* that decoding, encoding, str() and the comparison `cell != 0` are        *)
(* computed as Python computes them.                                        *)
(***************************************************************************)
EXTENDS Integers, Sequences, FiniteSets, TLC

VARIABLES
    pc,              \* position in the program of the running specification
    input_sudoku,    \* solver(): the grid argument
    diagonal,        \* solver(): the diagonal argument
    dims,            \* solver(): (n_rows, n_cols, m) returned by the validator
    prob,            \* solver(): the constraints of the LpProblem
    status,          \* solver(): LpStatus[prob.status]
    assignment,      \* solver(): the variables the backend set to 1
    solution,        \* solver(): the returned value (a grid, or None)
    exc,             \* the exception raised by the last call ("" for none)
    file,            \* main(): the input file: whether it exists, and its lines
    fpos,            \* read_sudokus_from_file: lines consumed so far
    num_sudokus,     \* read_sudokus_from_file: the declared number of puzzles
    sudoku_index,    \* read_sudokus_from_file: iterations of the loop done
    sudokus,         \* read_sudokus_from_file: the puzzles stored
    diagonal_flags,  \* read_sudokus_from_file: the flags stored
    origin,          \* history: the header line each stored puzzle came from
    solutions,       \* main(): what solver returned for each stored puzzle
    output,          \* write_sudoku_solutions_to_file: the blocks written
    records,         \* history: the puzzle records the input file was made of
    cval,            \* codec: the value being encoded
    csym,            \* codec: the cell extract_solution emits for it
    ctext,           \* codec: the token the writer prints for that cell
    cback            \* codec: what decoding gives back

vars == <<pc, input_sudoku, diagonal, dims, prob, status, assignment, solution,
          exc, file, fpos, num_sudokus, sudoku_index, sudokus, diagonal_flags,
          origin, solutions, output, records, cval, csym, ctext, cback>>

solverVars == <<input_sudoku, diagonal, dims, prob, status, assignment, solution>>
batchVars == <<file, fpos, num_sudokus, sudoku_index, sudokus, diagonal_flags,
               origin, solutions, output, records>>
codecVars == <<cval, csym, ctext, cback>>

----------------------------------------------------------------------------
(* Python values *)

None == [t |-> "None", i |-> 0, s |-> <<>>]

PyInt(n) == [t |-> "int", i |-> n, s |-> <<>>]

PyStr(chars) == [t |-> "str", i |-> 0, s |-> chars]

\* a list of rows (a grid)
PyList(rows) == [t |-> "list", i |-> 0, s |-> rows]

IsDigitChar(ch) == ch >= 48 /\ ch <= 57

IsAlphaChar(ch) == (ch >= 65 /\ ch <= 90) \/ (ch >= 97 /\ ch <= 122)

\* str.isalpha(): a non-empty string of letters only
isalpha(chars) == Len(chars) > 0 /\ \A k \in 1..Len(chars) : IsAlphaChar(chars[k])

\* str.upper() on one character
upper(ch) == IF ch >= 97 /\ ch <= 122 THEN ch - 32 ELSE ch

Ok(v) == [ok |-> TRUE, v |-> v, exc |-> ""]

Raise(kind) == [ok |-> FALSE, v |-> 0, exc |-> kind]

RECURSIVE DigitsValue(_)
DigitsValue(chars) ==
    IF Len(chars) = 0 THEN 0
    ELSE 10 * DigitsValue(SubSeq(chars, 1, Len(chars) - 1)) + (chars[Len(chars)] - 48)

AllDigits(chars) == Len(chars) > 0 /\ \A k \in 1..Len(chars) : IsDigitChar(chars[k])

\* int(x): an int is returned as it is; a str is parsed as an optional sign and
\* decimal digits, and anything else raises ValueError
int(x) ==
    IF x.t = "int" THEN Ok(x.i)
    ELSE IF x.t # "str" THEN Raise("TypeError")
    ELSE IF AllDigits(x.s) THEN Ok(DigitsValue(x.s))
    ELSE IF Len(x.s) > 1 /\ x.s[1] = 45 /\ AllDigits(Tail(x.s)) THEN Ok(0 - DigitsValue(Tail(x.s)))
    ELSE IF Len(x.s) > 1 /\ x.s[1] = 43 /\ AllDigits(Tail(x.s)) THEN Ok(DigitsValue(Tail(x.s)))
    ELSE Raise("ValueError")

\* ord(c): defined on strings of length one only
ord(chars) == IF Len(chars) = 1 THEN Ok(chars[1]) ELSE Raise("TypeError")

RECURSIVE DigitsOf(_)
DigitsOf(n) == IF n < 10 THEN <<48 + n>> ELSE Append(DigitsOf(n \div 10), 48 + (n % 10))

\* str(x), as the writer applies it to a cell
str(x) ==
    IF x.t = "str" THEN x.s
    ELSE IF x.i < 0 THEN <<45>> \o DigitsOf(0 - x.i)
    ELSE DigitsOf(x.i)

----------------------------------------------------------------------------
(* The value codec *)

convert_to_numeric(value) ==
    IF value.t = "str" /\ isalpha(value.s)
    THEN LET o == ord(<<upper(value.s[1])>> \o Tail(value.s))
         IN  IF o.ok THEN Ok(o.v - 55) ELSE o
    ELSE int(value)

\* the cell extract_solution stores for a value: a letter above 9, the int itself
\* otherwise
EncodeCell_OffByOne(value) == IF value > 9 THEN PyStr(<<54 + value>>) ELSE PyInt(value)

EncodeCell(value) == IF value > 9 THEN PyStr(<<55 + value>>) ELSE PyInt(value)

----------------------------------------------------------------------------
(* The input validator.  A grid is a sequence of rows, a row a sequence of  *)
(* cells; row r and column c of the code are rows r+1 and c+1 here.         *)

Cell(grid, row, col) == grid[row + 1][col + 1]

\* int(sqrt(n))
Isqrt(n) == CHOOSE m \in 0..n : m * m <= n /\ (m + 1) * (m + 1) > n

Checked(kind, check) == [ok |-> FALSE, exc |-> kind, check |-> check,
                         n_rows |-> 0, n_cols |-> 0, m |-> 0]

Accepted(n_rows, n_cols, m) == [ok |-> TRUE, exc |-> "", check |-> "",
                                n_rows |-> n_rows, n_cols |-> n_cols, m |-> m]

\* the value loop's verdict on one cell: "" when the cell passes, else the
\* exception it raises and the check that raised it
CellVerdict(value, n_rows) ==
    LET numeric_value == convert_to_numeric(value)
    IN  IF ~numeric_value.ok THEN <<numeric_value.exc, "decode">>
        ELSE IF ~(0 <= numeric_value.v /\ numeric_value.v <= n_rows) THEN <<"ValueError", "value">>
        ELSE <<"", "">>

\* the first cell, in row-major order, that the value loop stops at
FirstBadCell(grid, n_rows, n_cols) ==
    LET bad == {k \in 0..(n_rows * n_cols - 1) :
                   CellVerdict(Cell(grid, k \div n_cols, k % n_cols), n_rows)[1] # ""}
    IN  IF bad = {} THEN -1 ELSE CHOOSE k \in bad : \A j \in bad : k <= j

validate_sudoku_input_SquareFirst(grid) ==
    IF Len(grid) = 0 THEN Checked("IndexError", "index")
    ELSE
    LET n_rows == Len(grid)
        n_cols == Len(grid[1])
        m == Isqrt(n_rows)
    IN  IF n_rows # n_cols THEN Checked("ValueError", "square")
        ELSE IF \E k \in 1..n_rows : Len(grid[k]) # n_cols
        THEN Checked("ValueError", "rectangular")
        ELSE IF m * m # n_rows THEN Checked("ValueError", "perfect_square")
        ELSE LET k == FirstBadCell(grid, n_rows, n_cols)
             IN  IF k = -1 THEN Accepted(n_rows, n_cols, m)
                 ELSE LET v == CellVerdict(Cell(grid, k \div n_cols, k % n_cols), n_rows)
                      IN  Checked(v[1], v[2])

validate_sudoku_input(grid) ==
    IF Len(grid) = 0 THEN Checked("IndexError", "index")
    ELSE
    LET n_rows == Len(grid)
        n_cols == Len(grid[1])
        m == Isqrt(n_rows)
    IN  IF \E k \in 1..n_rows : Len(grid[k]) # n_cols
        THEN Checked("ValueError", "rectangular")
        ELSE IF n_rows # n_cols THEN Checked("ValueError", "square")
        ELSE IF m * m # n_rows THEN Checked("ValueError", "perfect_square")
        ELSE LET k == FirstBadCell(grid, n_rows, n_cols)
             IN  IF k = -1 THEN Accepted(n_rows, n_cols, m)
                 ELSE LET v == CellVerdict(Cell(grid, k \div n_cols, k % n_cols), n_rows)
                      IN  Checked(v[1], v[2])

----------------------------------------------------------------------------
(* The constraint model.  The binary variable grid_vars[row][col][value] is *)
(* the triple <<row, col, value>>; a constraint is its name and the set of  *)
(* variables whose sum must equal 1.                                        *)

\* setup_problem: the index ranges and the variable cube
Rows(n_rows) == 0..(n_rows - 1)

Values(n_rows) == 1..n_rows

GridVars(n_rows, n_cols) == Rows(n_rows) \X Rows(n_cols) \X Values(n_rows)

Constraint(name, cvars) == [name |-> name, vars |-> cvars]

ColumnConstraints(n) ==
    {Constraint(<<"col", col, value>>, {<<row, col, value>> : row \in Rows(n)}) :
        col \in Rows(n), value \in Values(n)}

RowConstraints(n) ==
    {Constraint(<<"row", row, value>>, {<<row, col, value>> : col \in Rows(n)}) :
        row \in Rows(n), value \in Values(n)}

CellConstraints(n) ==
    {Constraint(<<"cell", row, col>>, {<<row, col, value>> : value \in Values(n)}) :
        row \in Rows(n), col \in Rows(n)}

SubgridConstraints(n, m) ==
    {Constraint(<<"subgrid", grid_row, grid_col, value>>,
                {<<grid_row * m + row, grid_col * m + col, value>> :
                    row \in Rows(m), col \in Rows(m)}) :
        grid_row \in Rows(m), grid_col \in Rows(m), value \in Values(n)}

\* the cells the clue loop prefills: those whose stored object is != 0.  A str
\* never equals the int 0, whatever it spells.
IsPrefilled(cell) == cell # PyInt(0)

PrefilledCells(n, input) ==
    {rc \in Rows(n) \X Rows(n) : IsPrefilled(Cell(input, rc[1], rc[2]))}

ClueConstraints(n, input) ==
    {Constraint(<<"prefilled", rc[1], rc[2]>>,
                {<<rc[1], rc[2], convert_to_numeric(Cell(input, rc[1], rc[2])).v>>}) :
        rc \in PrefilledCells(n, input)}

\* create_sudoku_constraints: grid_vars[row][col][value] raises KeyError for a
\* value outside 1..n, and then no constraint set is returned
create_sudoku_constraints(n, m, input) ==
    IF \E rc \in PrefilledCells(n, input) :
           convert_to_numeric(Cell(input, rc[1], rc[2])).v \notin Values(n)
    THEN [ok |-> FALSE, exc |-> "KeyError", cons |-> {}]
    ELSE [ok |-> TRUE, exc |-> "",
          cons |-> ColumnConstraints(n) \cup RowConstraints(n) \cup CellConstraints(n)
                   \cup SubgridConstraints(n, m) \cup ClueConstraints(n, input)]

add_diagonal_sudoku_constraints_MainOnly(n) ==
    {Constraint(<<"diagonal1", value>>, {<<i, i, value>> : i \in Rows(n)}) :
        value \in Values(n)}

add_diagonal_sudoku_constraints(n) ==
    {Constraint(<<"diagonal1", value>>, {<<i, i, value>> : i \in Rows(n)}) :
        value \in Values(n)}
    \cup
    {Constraint(<<"diagonal2", value>>, {<<i, n - i - 1, value>> : i \in Rows(n)}) :
        value \in Values(n)}

----------------------------------------------------------------------------
(* The ILP backend (prob.solve()): every 0/1 assignment under which each    *)
(* constraint's variables sum to 1 is feasible, and with the zero objective *)
(* every feasible assignment is optimal.  An assignment is the set of the   *)
(* variables it sets to 1.                                                  *)

Satisfies(A, cons) == \A c \in cons : Cardinality(A \cap c.vars) = 1

\* the assignments that satisfy `sets` exactly, each extended from `chosen`.
\* Choosing a variable closes every constraint holding it and sets their other
\* variables to 0.  The variables of one-variable constraints are forced and
\* taken together; otherwise branch on the variables of a smallest constraint.
RECURSIVE ExactCover(_, _)
ExactCover(sets, chosen) ==
    IF sets = {} THEN {chosen}
    ELSE IF {} \in sets THEN {}
    ELSE LET units == UNION {d \in sets : Cardinality(d) = 1}
         IN  IF units # {}
             THEN LET closed == {d \in sets : d \cap units # {}}
                      zero == (UNION closed) \ units
                  IN  IF \E d \in closed : Cardinality(d \cap units) > 1 THEN {}
                      ELSE ExactCover({d \ zero : d \in sets \ closed},
                                      {x : x \in chosen \cup units})
             ELSE LET c == CHOOSE d \in sets : \A e \in sets : Cardinality(d) <= Cardinality(e)
                  IN  UNION { LET closed == {d \in sets : v \in d}
                                  zero == (UNION closed) \ {v}
                              IN  ExactCover({d \ zero : d \in sets \ closed},
                                             {x : x \in chosen \cup {v}})
                              : v \in c }

FeasibleAssignments(cons, gridvars) ==
    LET free == gridvars \ UNION {c.vars : c \in cons}
    IN  {A \cup F : A \in ExactCover({c.vars : c \in cons}, {}), F \in SUBSET free}

NonOptimalStatuses == {"Infeasible", "Unbounded", "Not Solved", "Undefined"}

----------------------------------------------------------------------------
(* extract_solution: every cell starts as the int 0 and takes the encoding  *)
(* of each value whose variable is set, in ascending order of value         *)

SetMax(S) == CHOOSE x \in S : \A y \in S : y <= x

extract_cell(A, n, row, col) ==
    LET set == {value \in Values(n) : <<row, col, value>> \in A}
    IN  IF set = {} THEN PyInt(0) ELSE EncodeCell(SetMax(set))

extract_solution_Transposed(A, n) ==
    [r \in 1..n |-> [c \in 1..n |-> extract_cell(A, n, c - 1, r - 1)]]

extract_solution(A, n) ==
    [r \in 1..n |-> [c \in 1..n |-> extract_cell(A, n, r - 1, c - 1)]]

----------------------------------------------------------------------------
(* solver() as one call: every value it may return for a grid and a flag    *)

SolverStatuses(feasible) == IF feasible # {} THEN {"Optimal"} ELSE NonOptimalStatuses

\* the status test of lines 135-139
ReturnsGrid_AlsoUndefined(st) == st \in {"Optimal", "Undefined"}

ReturnsGrid(st) == st = "Optimal"

solver(grid, diag) ==
    LET v == validate_sudoku_input(grid)
    IN  IF ~v.ok THEN {None}
        ELSE LET b == create_sudoku_constraints(v.n_rows, v.m, grid)
             IN  IF ~b.ok THEN {None}
                 ELSE LET cons == IF diag
                                  THEN b.cons \cup add_diagonal_sudoku_constraints(v.n_rows)
                                  ELSE b.cons
                          feasible == FeasibleAssignments(cons, GridVars(v.n_rows, v.n_cols))
                      IN  IF feasible = {}
                          THEN {IF ReturnsGrid(st) THEN PyList(extract_solution({}, v.n_rows))
                                ELSE None : st \in NonOptimalStatuses}
                          ELSE {IF ReturnsGrid("Optimal")
                                THEN PyList(extract_solution(A, v.n_rows))
                                ELSE None : A \in feasible}

----------------------------------------------------------------------------
(* The input file and read_sudokus_from_file.  A file is its lines, a line  *)
(* the tokens line.strip().split() gives, a token a string.  Reading at the *)
(* end of the file gives the empty line.                                    *)

NoFile == [exists |-> FALSE, lines |-> <<>>]

FileOf(lines) == [exists |-> TRUE, lines |-> lines]

\* f.readline().strip().split() at position pos, and the position after it
Line(lines, pos) == IF pos < Len(lines) THEN lines[pos + 1] ELSE <<>>

Advance(lines, pos) == IF pos < Len(lines) THEN pos + 1 ELSE pos

\* line 154: int(f.readline().strip())
ParseCount(tokens) ==
    IF Len(tokens) = 1 THEN int(PyStr(tokens[1])) ELSE Raise("ValueError")

\* line 157: dim, diagonal_flag = map(int, tokens)
ParseHeader(tokens) ==
    IF Len(tokens) = 2 /\ int(PyStr(tokens[1])).ok /\ int(PyStr(tokens[2])).ok
    THEN [ok |-> TRUE, exc |-> "", dim |-> int(PyStr(tokens[1])).v,
          flag |-> int(PyStr(tokens[2])).v]
    ELSE [ok |-> FALSE, exc |-> "ValueError", dim |-> 0, flag |-> 0]

\* line 174: the range a stored value must lie in
ValueAllowed_NoUpperBound(value, dim) == 0 <= value

ValueAllowed(value, dim) == 0 <= value /\ value <= dim

\* lines 167-177: one row of a puzzle.  The whole row is converted before any
\* value is range-checked.
ReadRow(tokens, dim) ==
    LET numeric == [k \in 1..Len(tokens) |-> convert_to_numeric(PyStr(tokens[k]))]
        failed == {k \in 1..Len(tokens) : ~numeric[k].ok}
    IN  IF Len(tokens) # dim THEN [ok |-> FALSE, exc |-> "ValueError", row |-> <<>>]
        ELSE IF failed # {}
        THEN [ok |-> FALSE, exc |-> numeric[CHOOSE k \in failed : \A j \in failed : k <= j].exc,
              row |-> <<>>]
        ELSE IF \E k \in 1..Len(tokens) : ~ValueAllowed(numeric[k].v, dim)
        THEN [ok |-> FALSE, exc |-> "ValueError", row |-> <<>>]
        ELSE [ok |-> TRUE, exc |-> "", row |-> [k \in 1..Len(tokens) |-> PyInt(numeric[k].v)]]

\* lines 166-177: rows k+1..dim, read from position pos
RECURSIVE ReadRows(_, _, _, _)
ReadRows(lines, pos, dim, k) ==
    IF k >= dim THEN [ok |-> TRUE, exc |-> "", rows |-> <<>>, pos |-> pos]
    ELSE LET row == ReadRow(Line(lines, pos), dim)
         IN  IF ~row.ok
             THEN [ok |-> FALSE, exc |-> row.exc, rows |-> <<>>, pos |-> Advance(lines, pos)]
             ELSE LET rest == ReadRows(lines, Advance(lines, pos), dim, k + 1)
                  IN  [rest EXCEPT !.rows = <<row.row>> \o rest.rows]

Failed(kind, pos) ==
    [ok |-> FALSE, exc |-> kind, sudoku |-> <<>>, diagonal |-> FALSE, pos |-> pos]

\* lines 157-182: one iteration of the loop, up to its append or its raise
ReadRecord(lines, pos) ==
    LET header == ParseHeader(Line(lines, pos))
        pos1 == Advance(lines, pos)
    IN  IF ~header.ok THEN Failed(header.exc, pos1)
        ELSE IF header.dim < 0 THEN Failed("ValueError", pos1)
        ELSE IF Isqrt(header.dim) * Isqrt(header.dim) # header.dim
        THEN Failed("ValueError", pos1)
        ELSE LET rows == ReadRows(lines, pos1, header.dim, 0)
             IN  IF ~rows.ok THEN Failed(rows.exc, rows.pos)
                 ELSE [ok |-> TRUE, exc |-> "", sudoku |-> rows.rows,
                       diagonal |-> (header.flag = 1), pos |-> Advance(lines, rows.pos)]

\* lines 198-205: the block written for the i-th solution
Block(i, sol) ==
    IF sol.t = "list" /\ Len(sol.s) > 0
    THEN [index |-> i, found |-> TRUE,
          rows |-> [r \in 1..Len(sol.s) |-> [c \in 1..Len(sol.s[r]) |-> str(sol.s[r][c])]]]
    ELSE [index |-> i, found |-> FALSE, rows |-> <<>>]

----------------------------------------------------------------------------
(* solver(input_sudoku, diagonal), one action per step of its body.  Any    *)
(* exception raised inside the try block is caught and None is returned.    *)

Idle == [ok |-> FALSE, exc |-> "", check |-> "", n_rows |-> 0, n_cols |-> 0, m |-> 0]

\* line 119: validate_sudoku_input(input_sudoku)
Validate ==
    /\ pc = "start"
    /\ LET r == validate_sudoku_input(input_sudoku)
       IN  /\ dims' = r
           /\ IF r.ok
              THEN /\ pc' = "validated"
                   /\ UNCHANGED <<exc, solution>>
              ELSE /\ pc' = "returned"
                   /\ exc' = r.exc
                   /\ solution' = None
    /\ UNCHANGED <<input_sudoku, diagonal, prob, status, assignment>>
    /\ UNCHANGED <<batchVars, codecVars>>

\* lines 122-125: setup_problem and create_sudoku_constraints
Build ==
    /\ pc = "validated"
    /\ LET r == create_sudoku_constraints(dims.n_rows, dims.m, input_sudoku)
       IN  IF r.ok
           THEN /\ prob' = r.cons
                /\ pc' = "built"
                /\ UNCHANGED <<exc, solution>>
           ELSE /\ pc' = "returned"
                /\ exc' = r.exc
                /\ solution' = None
                /\ UNCHANGED prob
    /\ UNCHANGED <<input_sudoku, diagonal, dims, status, assignment>>
    /\ UNCHANGED <<batchVars, codecVars>>

\* lines 128-129: the diagonal constraints, only when asked for
Diagonal ==
    /\ pc = "built"
    /\ prob' = IF diagonal THEN prob \cup add_diagonal_sudoku_constraints(dims.n_rows)
               ELSE prob
    /\ pc' = "ready"
    /\ UNCHANGED <<input_sudoku, diagonal, dims, status, assignment, solution, exc>>
    /\ UNCHANGED <<batchVars, codecVars>>

\* line 132: prob.solve().  A feasible model comes back Optimal with any one of
\* its feasible assignments; an infeasible one with any other status.
Solve ==
    /\ pc = "ready"
    /\ LET feasible == FeasibleAssignments(prob, GridVars(dims.n_rows, dims.n_cols))
       IN  IF feasible # {}
           THEN \E A \in feasible : status' = "Optimal" /\ assignment' = A
           ELSE \E st \in NonOptimalStatuses : status' = st /\ assignment' = {}
    /\ pc' = "solved"
    /\ UNCHANGED <<input_sudoku, diagonal, dims, prob, solution, exc>>
    /\ UNCHANGED <<batchVars, codecVars>>

\* lines 135-145: extract the solution, or raise and return None
Return ==
    /\ pc = "solved"
    /\ IF ReturnsGrid(status)
       THEN /\ solution' = PyList(extract_solution(assignment, dims.n_rows))
            /\ UNCHANGED exc
       ELSE /\ solution' = None
            /\ exc' = "Exception"
    /\ pc' = "returned"
    /\ UNCHANGED <<input_sudoku, diagonal, dims, prob, status, assignment>>
    /\ UNCHANGED <<batchVars, codecVars>>

----------------------------------------------------------------------------
(* The grids solver() is called with.  A value grid holds the ints 0..n (0: *)
(* empty); a representation says which Python object stands for each value. *)

NumShifts == 2

MaxRemoved == 2

\* a complete valid grid of size n = m*m, its values shifted by k
Pattern(n, m, k) ==
    [r \in 1..n |-> [c \in 1..n |->
        ((((r - 1) % m) * m + ((r - 1) \div m) + (c - 1) + k) % n) + 1]]

\* complete grids whose two diagonals are valid as well
XGrid4 == << <<1, 2, 3, 4>>, <<3, 4, 1, 2>>, <<4, 3, 2, 1>>, <<2, 1, 4, 3>> >>

XGrid9 == << <<6, 3, 9, 2, 5, 1, 7, 4, 8>>, <<4, 5, 8, 3, 6, 7, 9, 1, 2>>,
             <<1, 7, 2, 8, 4, 9, 3, 6, 5>>, <<9, 6, 7, 4, 3, 5, 2, 8, 1>>,
             <<8, 2, 4, 1, 7, 6, 5, 9, 3>>, <<3, 1, 5, 9, 2, 8, 4, 7, 6>>,
             <<7, 9, 6, 5, 8, 3, 1, 2, 4>>, <<5, 4, 1, 6, 9, 2, 8, 3, 7>>,
             <<2, 8, 3, 7, 1, 4, 6, 5, 9>> >>

XGrid16 == << <<3, 4, 7, 10, 1, 16, 2, 6, 11, 5, 12, 13, 14, 8, 9, 15>>,
              <<15, 12, 8, 14, 3, 11, 13, 4, 6, 16, 1, 9, 10, 5, 2, 7>>,
              <<13, 5, 11, 6, 8, 14, 12, 9, 15, 10, 2, 7, 3, 4, 1, 16>>,
              <<1, 16, 2, 9, 7, 15, 5, 10, 8, 14, 4, 3, 11, 6, 12, 13>>,
              <<6, 10, 13, 1, 5, 9, 7, 14, 2, 4, 11, 8, 12, 15, 16, 3>>,
              <<11, 8, 5, 7, 6, 10, 3, 15, 14, 9, 16, 12, 1, 13, 4, 2>>,
              <<2, 3, 9, 4, 12, 1, 16, 13, 10, 7, 6, 15, 5, 11, 8, 14>>,
              <<16, 14, 12, 15, 4, 8, 11, 2, 1, 13, 3, 5, 6, 10, 7, 9>>,
              <<8, 13, 16, 12, 15, 2, 9, 5, 7, 11, 10, 1, 4, 14, 3, 6>>,
              <<4, 1, 3, 11, 10, 7, 14, 12, 16, 15, 5, 6, 9, 2, 13, 8>>,
              <<9, 15, 14, 2, 11, 6, 1, 8, 12, 3, 13, 4, 16, 7, 10, 5>>,
              <<10, 7, 6, 5, 13, 3, 4, 16, 9, 2, 8, 14, 15, 12, 11, 1>>,
              <<14, 6, 15, 3, 2, 13, 10, 1, 4, 12, 7, 16, 8, 9, 5, 11>>,
              <<7, 2, 10, 16, 9, 4, 6, 3, 5, 8, 15, 11, 13, 1, 14, 12>>,
              <<5, 9, 4, 8, 16, 12, 15, 11, 13, 1, 14, 2, 7, 3, 6, 10>>,
              <<12, 11, 1, 13, 14, 5, 8, 7, 3, 6, 9, 10, 2, 16, 15, 4>> >>

\* rows 1 and 2 swapped, and columns 1 and 2: the main diagonal keeps its
\* values, the anti-diagonal does not
SwapFirstTwo(g) ==
    LET sw(i) == IF i = 1 THEN 2 ELSE IF i = 2 THEN 1 ELSE i
    IN  [r \in 1..Len(g) |-> [c \in 1..Len(g) |-> g[sw(r)][sw(c)]]]

\* a complete valid 9x9 grid valid on the main diagonal only
HalfXGrid9 == SwapFirstTwo(XGrid9)

\* the first k cells of a value grid, in row-major order, the rest emptied
Mask(g, n, k) ==
    [r \in 1..n |-> [c \in 1..n |-> IF (r - 1) * n + (c - 1) < k THEN g[r][c] ELSE 0]]

\* a filled grid made invalid: the last cell repeats the first value of its row
Spoil(g, n) == [g EXCEPT ![n][n] = g[n][1]]

\* the empty 4x4 grid with the clue 1 in the first cell and one more clue
TwoClues(r, c, v) ==
    [i \in 1..4 |-> [j \in 1..4 |->
        IF i = 1 /\ j = 1 THEN 1 ELSE IF i = r /\ j = c THEN v ELSE 0]]

Digit(v) == PyStr(<<48 + v>>)

Letter(v) == PyStr(<<64 + (v - 9)>>)

Representations == {"int", "out", "sym", "str0"}

\* "int": every value an int.  "out": the form solver returns (ints up to 9,
\* letters above).  "sym": every clue a symbol, "0" included for an empty cell
\* when `rep` is "str0".
CellAs(v, rep) ==
    CASE rep = "int" -> PyInt(v)
      [] rep = "out" -> IF v > 9 THEN Letter(v) ELSE PyInt(v)
      [] rep = "sym" -> IF v = 0 THEN PyInt(0) ELSE IF v > 9 THEN Letter(v) ELSE Digit(v)
      [] rep = "str0" -> IF v = 0 THEN Digit(0) ELSE PyInt(v)

GridAs(g, rep) == [r \in 1..Len(g) |-> [c \in 1..Len(g[r]) |-> CellAs(g[r][c], rep)]]

Complete4 == {Pattern(4, 2, k) : k \in 0..(NumShifts - 1)} \cup {XGrid4}

ValueGrids ==
    {Mask(g, 4, k) : g \in Complete4, k \in 0..16}
    \cup {TwoClues(rc[1], rc[2], v) : rc \in ((1..4) \X (1..4)) \ {<<1, 1>>}, v \in 1..4}
    \cup {Spoil(g, 4) : g \in Complete4}
    \cup {<<<<0>>>>, <<<<1>>>>}
    \cup {Mask(g, 9, k) : g \in {XGrid9, HalfXGrid9, Pattern(9, 3, 0)},
                            k \in (81 - MaxRemoved)..81}
    \cup {Mask(g, 16, k) : g \in {XGrid16, Pattern(16, 4, 0)}, k \in (256 - MaxRemoved)..256}
    \cup {Spoil(XGrid9, 9), Spoil(XGrid16, 16)}

\* grids the validator turns down: a value above n, a missing row
Rejected ==
    {GridAs([g EXCEPT ![1][1] = Len(g) + 1], "int") : g \in Complete4}
    \cup {GridAs(SubSeq(g, 1, 3), "int") : g \in Complete4}

SolverInputs == {GridAs(g, rep) : g \in ValueGrids, rep \in Representations} \cup Rejected

Init ==
    /\ pc = "start"
    /\ input_sudoku \in SolverInputs
    /\ diagonal \in BOOLEAN
    /\ dims = Idle
    /\ prob = {}
    /\ status = ""
    /\ assignment = {}
    /\ solution = None
    /\ exc = ""
    /\ file = NoFile /\ fpos = 0 /\ num_sudokus = 0 /\ sudoku_index = 0
    /\ sudokus = <<>> /\ diagonal_flags = <<>> /\ origin = <<>>
    /\ solutions = <<>> /\ output = <<>> /\ records = <<>>
    /\ cval = 0 /\ csym = None /\ ctext = <<>> /\ cback = Raise("")

Next == Validate \/ Build \/ Diagonal \/ Solve \/ Return

Spec == Init /\ [][Next]_vars

----------------------------------------------------------------------------
(* What a Sudoku solution is, stated on grids of values and without the     *)
(* constraint model: the yardstick the claims are measured against.         *)

\* the values the cells of a validated grid decode to
Decoded(grid) ==
    [r \in 1..Len(grid) |-> [c \in 1..Len(grid[r]) |-> convert_to_numeric(grid[r][c]).v]]

IsGrid(x, n) == x.t = "list" /\ Len(x.s) = n /\ \A r \in 1..n : Len(x.s[r]) = n

RowsValid(v, n) == \A r \in 1..n : {v[r][c] : c \in 1..n} = 1..n

ColumnsValid(v, n) == \A c \in 1..n : {v[r][c] : r \in 1..n} = 1..n

BoxesValid(v, n, m) ==
    \A br \in 0..(m - 1), bc \in 0..(m - 1) :
        {v[br * m + i][bc * m + j] : i \in 1..m, j \in 1..m} = 1..n

IsSudoku(v, n, m) == RowsValid(v, n) /\ ColumnsValid(v, n) /\ BoxesValid(v, n, m)

DiagonalsValid(v, n) ==
    /\ {v[i][i] : i \in 1..n} = 1..n
    /\ {v[i][n + 1 - i] : i \in 1..n} = 1..n

\* every clue of `clues` (a non-zero value) is kept by `v`
KeepsClues(clues, v, n) ==
    \A r \in 1..n, c \in 1..n : clues[r][c] # 0 => v[r][c] = clues[r][c]

HasRowDuplicate(v, n) ==
    \E r \in 1..n, c1 \in 1..n, c2 \in 1..n :
        c1 # c2 /\ v[r][c1] # 0 /\ v[r][c1] = v[r][c2]

HasEmptyCell(v, n) == \E r \in 1..n, c \in 1..n : v[r][c] = 0

Perms(n) == {p \in [1..n -> 1..n] : \A i \in 1..n, j \in 1..n : i # j => p[i] # p[j]}

\* row p can follow the rows of g: no value twice in a column or in a box
RowFits(g, p, n, m) ==
    \A j \in 1..Len(g), c \in 1..n :
        /\ g[j][c] # p[c]
        /\ (j - 1) \div m = Len(g) \div m =>
               \A d \in 1..n : (c - 1) \div m = (d - 1) \div m => g[j][c] # p[d]

RECURSIVE FirstRows(_, _, _)
FirstRows(n, m, k) ==
    IF k = 0 THEN {<<>>}
    ELSE {Append(gp[1], gp[2]) :
             gp \in {x \in FirstRows(n, m, k - 1) \X Perms(n) : RowFits(x[1], x[2], n, m)}}

\* every complete valid grid of size n (enumerable for n up to 4)
CompleteGrids(n, m) == {g \in FirstRows(n, m, n) : IsSudoku(g, n, m)}

CompleteGrids1 == CompleteGrids(1, 1)

CompleteGrids4 == CompleteGrids(4, 2)

\* the complete valid grids known for size n: all of them up to 4, the grids
\* the inputs were cut from above
KnownComplete(n) ==
    CASE n = 1 -> CompleteGrids1
      [] n = 4 -> CompleteGrids4
      [] n = 9 -> {g \in {XGrid9, HalfXGrid9, Pattern(9, 3, 0)} : IsSudoku(g, 9, 3)}
      [] n = 16 -> {g \in {XGrid16, Pattern(16, 4, 0)} : IsSudoku(g, 16, 4)}
      [] OTHER -> {}

Enumerable(n) == n \in {1, 4}

\* the standard completions of a grid of values, and those valid on the
\* diagonals as well
Completions(clues, n) == {g \in KnownComplete(n) : KeepsClues(clues, g, n)}

DiagonalCompletions(clues, n) == {g \in Completions(clues, n) : DiagonalsValid(g, n)}

----------------------------------------------------------------------------
(* Claims about solver() *)

Returned == pc = "returned"

ReturnedGrid == pc = "returned" /\ solution.t = "list"

InputValues == Decoded(input_sudoku)

SolutionValues == Decoded(solution.s)

\* the returned grid is complete, keeps the clues and obeys the three rules
SolutionIsCompletion ==
    /\ IsGrid(solution, dims.n_rows)
    /\ KeepsClues(InputValues, SolutionValues, dims.n_rows)
    /\ IsSudoku(SolutionValues, dims.n_rows, dims.m)

\* C1: every validated grid whose clues lie in some complete valid grid is
\* solved by solver(grid, diagonal=False): the result is not None, keeps every
\* clue, and has each value once in every row, column and box.
C1_EveryCompletableGridIsSolved ==
    (Returned /\ dims.ok /\ ~diagonal /\ Completions(InputValues, dims.n_rows) # {})
        => SolutionIsCompletion

\* the same for the grids whose empty cells are the int 0
C1_IntZeroGridsAreSolved ==
    (Returned /\ dims.ok /\ ~diagonal /\ Completions(InputValues, dims.n_rows) # {}
        /\ \A r \in 1..dims.n_rows, c \in 1..dims.n_rows :
               InputValues[r][c] = 0 => input_sudoku[r][c] = PyInt(0))
        => SolutionIsCompletion

\* the completions the constraints of this call allow
Allowed == IF diagonal THEN DiagonalCompletions(InputValues, dims.n_rows)
           ELSE Completions(InputValues, dims.n_rows)

\* C2: a validated grid with no completion (a value twice in a row, say) gives
\* None; a grid comes back only under status Optimal and is then a complete
\* grid obeying the rules; under every other status the result is None.
C2_NoCompletionGivesNone ==
    /\ (Returned /\ dims.ok /\ HasRowDuplicate(InputValues, dims.n_rows))
           => solution = None
    /\ (Returned /\ dims.ok /\ Enumerable(dims.n_rows) /\ Allowed = {})
           => solution = None
    /\ ReturnedGrid
           => /\ status = "Optimal"
              /\ SolutionIsCompletion
              /\ ~HasEmptyCell(SolutionValues, dims.n_rows)
    /\ (Returned /\ status \in NonOptimalStatuses) => solution = None

C2_Witness ==
    /\ Returned /\ dims.ok /\ dims.n_rows = 4
    /\ HasRowDuplicate(InputValues, 4)
    /\ status = "Undefined"
    /\ solution = None

\* a fully solved valid grid of size 4, 9 or 16 passed with diagonal=False
SolvedInput ==
    /\ dims.ok /\ dims.m \in {2, 3, 4} /\ ~diagonal
    /\ ~HasEmptyCell(InputValues, dims.n_rows)
    /\ IsSudoku(InputValues, dims.n_rows, dims.m)

\* the form extract_solution writes a value in: an int up to 9, one uppercase
\* letter above
InOutputForm(cell) ==
    \/ cell.t = "int" /\ cell.i >= 1 /\ cell.i <= 9
    \/ cell.t = "str" /\ Len(cell.s) = 1 /\ cell.s[1] >= 65 /\ cell.s[1] <= 90

InputInOutputForm ==
    \A r \in 1..dims.n_rows, c \in 1..dims.n_rows : InOutputForm(input_sudoku[r][c])

AllInts(grid) == \A r \in 1..Len(grid) : \A c \in 1..Len(grid[r]) : grid[r][c].t = "int"

\* C3 as claimed, for grids of ints: a fully solved valid grid comes back
\* equal, cell by cell, to the grid passed in.
C3_SolvedGridComesBackEqual ==
    (Returned /\ SolvedInput /\ AllInts(input_sudoku)) => solution = PyList(input_sudoku)

\* C3 as it holds: a fully solved valid grid comes back with every cell
\* decoding to the value of the cell passed in, and equal cell by cell exactly
\* when the grid passed in writes its values as extract_solution does.
C3_SolvedGridComesBackDecodedEqual ==
    (Returned /\ SolvedInput)
        => /\ IsGrid(solution, dims.n_rows)
           /\ SolutionValues = InputValues
           /\ (solution = PyList(input_sudoku)) <=> InputInOutputForm

C3_Witness ==
    /\ Returned /\ SolvedInput /\ dims.m = 4
    /\ solution.t = "list"
    /\ \E r \in 1..16, c \in 1..16 : input_sudoku[r][c] = PyInt(16)
    /\ SolutionValues = InputValues
    /\ solution # PyList(input_sudoku)

\* the grids the backend may return for the model held in prob
FeasibleGrids ==
    {Decoded(extract_solution(A, dims.n_rows)) :
        A \in FeasibleAssignments(prob, GridVars(dims.n_rows, dims.n_cols))}

IsDiagonalConstraint(c) == c.name[1] \in {"diagonal1", "diagonal2"}

ExpectedClues ==
    {Constraint(<<"prefilled", rc[1] - 1, rc[2] - 1>>,
                {<<rc[1] - 1, rc[2] - 1, InputValues[rc[1]][rc[2]]>>}) :
        rc \in {x \in (1..dims.n_rows) \X (1..dims.n_rows) : InputValues[x[1]][x[2]] # 0}}

\* C9: for every validated grid the builder adds a clue constraint for exactly
\* the cells whose decoded value is not 0; an empty cell, the int 0 or the
\* symbol "0", adds none, and the grid is solved rather than rejected.
C9_CluesOnlyForNonZeroCells ==
    (dims.ok /\ pc \in {"built", "ready", "solved", "returned"})
        => /\ exc # "KeyError"
           /\ {c \in prob : c.name[1] = "prefilled"} = ExpectedClues

----------------------------------------------------------------------------
(* The validator on grids of any shape: the call of line 119 on its own.    *)

MaxRows == 5

MaxCols == 5

\* cells that probe the value check of a grid of n rows
ProbeCells(n) ==
    {PyInt(0), PyInt(n), PyInt(n + 1), PyInt(-1), Digit(0),
     PyStr(<<68>>), PyStr(<<65, 66>>), PyStr(<<49, 120>>)}

\* rows of `a` zeros, row d of b zeros instead, then the first cell and the
\* last cell of the last row replaced
Shape(n, a, d, b, first, last) ==
    [r \in 1..n |->
        [c \in 1..(IF r = d THEN b ELSE a) |->
            IF r = 1 /\ c = 1 THEN first
            ELSE IF r = n /\ c = (IF r = d THEN b ELSE a) THEN last
            ELSE PyInt(0)]]

ShapesOf(n) ==
    {Shape(n, a, d, b, first, last) :
        a \in 0..MaxCols, d \in 1..n, b \in 0..MaxCols,
        first \in ProbeCells(n), last \in ProbeCells(n)}

ShapesUpTo(k) == {<<>>} \cup UNION {ShapesOf(n) : n \in 1..k}

ValidateInit ==
    /\ pc = "start"
    /\ input_sudoku \in ShapesUpTo(MaxRows)
    /\ diagonal = FALSE
    /\ dims = Idle
    /\ prob = {}
    /\ status = ""
    /\ assignment = {}
    /\ solution = None
    /\ exc = ""
    /\ file = NoFile /\ fpos = 0 /\ num_sudokus = 0 /\ sudoku_index = 0
    /\ sudokus = <<>> /\ diagonal_flags = <<>> /\ origin = <<>>
    /\ solutions = <<>> /\ output = <<>> /\ records = <<>>
    /\ cval = 0 /\ csym = None /\ ctext = <<>> /\ cback = Raise("")

ValidateSpec == ValidateInit /\ [][Validate]_vars

\* what the four checks ask of a grid, stated on the grid
Rectangular(g) == \A r \in 1..Len(g) : Len(g[r]) = Len(g[1])

Square(g) == Len(g) = Len(g[1])

PerfectSquare(n) == \E m \in 0..n : m * m = n

Decodes(cell) == convert_to_numeric(cell).ok

InRange(cell, n) == Decodes(cell) /\ convert_to_numeric(cell).v \in 0..n

ValuesInRange(g) == \A r \in 1..Len(g) : \A c \in 1..Len(g[r]) : InRange(g[r][c], Len(g))

\* the first cell, row by row, that does not decode into 0..n
FirstOffender(g) ==
    LET n == Len(g)
        bad == {k \in 0..(n * n - 1) : ~InRange(g[(k \div n) + 1][(k % n) + 1], n)}
        k == CHOOSE x \in bad : \A y \in bad : x <= y
    IN  g[(k \div n) + 1][(k % n) + 1]

Validated == pc # "start" /\ Len(input_sudoku) > 0

C7_Outcome ==
    /\ (pc # "start" /\ Len(input_sudoku) = 0) => ~dims.ok /\ dims.exc = "IndexError"
    /\ Validated =>
        IF ~Rectangular(input_sudoku)
        THEN ~dims.ok /\ dims.exc = "ValueError" /\ dims.check = "rectangular"
        ELSE IF ~Square(input_sudoku)
        THEN ~dims.ok /\ dims.exc = "ValueError" /\ dims.check = "square"
        ELSE IF ~PerfectSquare(Len(input_sudoku))
        THEN ~dims.ok /\ dims.exc = "ValueError" /\ dims.check = "perfect_square"
        ELSE IF ~ValuesInRange(input_sudoku)
        THEN /\ ~dims.ok
             /\ LET cell == FirstOffender(input_sudoku)
                IN  IF Decodes(cell)
                    THEN dims.exc = "ValueError" /\ dims.check = "value"
                    ELSE /\ dims.check = "decode"
                         /\ dims.exc = IF cell.t = "str" /\ isalpha(cell.s)
                                       THEN "TypeError" ELSE "ValueError"
        ELSE /\ dims.ok
             /\ dims.n_rows = Len(input_sudoku)
             /\ dims.n_cols = dims.n_rows
             /\ dims.m * dims.m = dims.n_rows

----------------------------------------------------------------------------
(* The codec on its own: a value is encoded as extract_solution encodes it  *)
(* (line 112), printed as the writer prints it (line 202), and decoded      *)
(* again, both from the cell and from the printed token.                    *)

MaxCodecValue == 40

CodecInit ==
    /\ pc = "value"
    /\ cval \in 0..MaxCodecValue
    /\ csym = None /\ ctext = <<>> /\ cback = Raise("")
    /\ input_sudoku = <<>>
    /\ diagonal = FALSE
    /\ dims = Idle
    /\ prob = {}
    /\ status = ""
    /\ assignment = {}
    /\ solution = None
    /\ exc = ""
    /\ file = NoFile /\ fpos = 0 /\ num_sudokus = 0 /\ sudoku_index = 0
    /\ sudokus = <<>> /\ diagonal_flags = <<>> /\ origin = <<>>
    /\ solutions = <<>> /\ output = <<>> /\ records = <<>>

Encode ==
    /\ pc = "value"
    /\ csym' = EncodeCell(cval)
    /\ pc' = "encoded"
    /\ UNCHANGED <<cval, ctext, cback, exc, solverVars, batchVars>>

PrintCell ==
    /\ pc = "encoded"
    /\ ctext' = str(csym)
    /\ pc' = "printed"
    /\ UNCHANGED <<cval, csym, cback, exc, solverVars, batchVars>>

DecodeCell ==
    /\ pc = "printed"
    /\ cback' = convert_to_numeric(csym)
    /\ pc' = "decoded"
    /\ UNCHANGED <<cval, csym, ctext, exc, solverVars, batchVars>>

DecodeToken ==
    /\ pc = "decoded"
    /\ cback' = convert_to_numeric(PyStr(ctext))
    /\ pc' = "reread"
    /\ UNCHANGED <<cval, csym, ctext, exc, solverVars, batchVars>>

CodecNext == Encode \/ PrintCell \/ DecodeCell \/ DecodeToken

CodecSpec == CodecInit /\ [][CodecNext]_vars

\* C8: for every value 1..35, decoding the symbol extract_solution emits gives
\* the value back; 1..9 are emitted as the decimal digit, 10..35 as the
\* letters A..Z in order.
C8_CodecRoundTrips ==
    (cval >= 1 /\ cval <= 35) =>
        /\ pc \in {"decoded", "reread"} => cback = Ok(cval)
        /\ pc \in {"printed", "decoded", "reread"} =>
               /\ Len(ctext) = 1
               /\ cval <= 9 => ctext[1] = 48 + cval
               /\ cval >= 10 => ctext[1] = 65 + (cval - 10)

C8_Witness == pc = "reread" /\ cval = 35 /\ ctext = <<90>> /\ cback = Ok(35)

----------------------------------------------------------------------------
(* main(): read the file, solve each stored puzzle, write the blocks.       *)

\* lines 152-154 and 188-191: open the file and read the count
OpenFile ==
    /\ pc = "open"
    /\ IF ~file.exists
       THEN /\ exc' = "FileNotFoundError"
            /\ pc' = "solving"
            /\ UNCHANGED <<num_sudokus, fpos>>
       ELSE LET count == ParseCount(Line(file.lines, 0))
            IN  /\ fpos' = Advance(file.lines, 0)
                /\ IF count.ok
                   THEN /\ num_sudokus' = count.v
                        /\ pc' = "loop"
                        /\ UNCHANGED exc
                   ELSE /\ exc' = count.exc
                        /\ pc' = "solving"
                        /\ UNCHANGED num_sudokus
    /\ UNCHANGED <<file, sudoku_index, sudokus, diagonal_flags, origin, solutions,
                   output, records>>
    /\ UNCHANGED <<input_sudoku, diagonal, dims, prob, status, assignment, solution>>
    /\ UNCHANGED codecVars

\* lines 155-186: one iteration of the loop.  ValueError is caught and the
\* loop goes on; any other exception leaves read_sudokus_from_file and main.
ReadPuzzle ==
    /\ pc = "loop"
    /\ sudoku_index < num_sudokus
    /\ LET r == ReadRecord(file.lines, fpos)
       IN  /\ fpos' = r.pos
           /\ sudoku_index' = sudoku_index + 1
           /\ IF r.ok
              THEN /\ sudokus' = Append(sudokus, r.sudoku)
                   /\ diagonal_flags' = Append(diagonal_flags, r.diagonal)
                   /\ origin' = Append(origin, fpos + 1)
                   /\ UNCHANGED <<pc, exc>>
              ELSE /\ exc' = r.exc
                   /\ pc' = IF r.exc = "ValueError" THEN "loop" ELSE "crashed"
                   /\ UNCHANGED <<sudokus, diagonal_flags, origin>>
    /\ UNCHANGED <<file, num_sudokus, solutions, output, records>>
    /\ UNCHANGED <<input_sudoku, diagonal, dims, prob, status, assignment, solution>>
    /\ UNCHANGED codecVars

\* line 193: the loop is over and the two lists are returned
EndRead ==
    /\ pc = "loop"
    /\ sudoku_index >= num_sudokus
    /\ pc' = "solving"
    /\ UNCHANGED <<exc, solverVars, batchVars, codecVars>>

Min(a, b) == IF a <= b THEN a ELSE b

\* lines 212-214: solver on the next pair of zip(sudokus, diagonal_flags)
SolvePuzzle ==
    /\ pc = "solving"
    /\ Len(solutions) < Min(Len(sudokus), Len(diagonal_flags))
    /\ LET i == Len(solutions) + 1
       IN  \E sol \in solver(sudokus[i], diagonal_flags[i]) :
               solutions' = Append(solutions, sol)
    /\ UNCHANGED <<pc, exc, file, fpos, num_sudokus, sudoku_index, sudokus,
                   diagonal_flags, origin, output, records>>
    /\ UNCHANGED <<input_sudoku, diagonal, dims, prob, status, assignment, solution>>
    /\ UNCHANGED codecVars

\* line 216: write_sudoku_solutions_to_file(solutions, output_file)
WriteFile ==
    /\ pc = "solving"
    /\ Len(solutions) = Min(Len(sudokus), Len(diagonal_flags))
    /\ output' = [i \in 1..Len(solutions) |-> Block(i, solutions[i])]
    /\ pc' = "done"
    /\ UNCHANGED <<exc, file, fpos, num_sudokus, sudoku_index, sudokus,
                   diagonal_flags, origin, solutions, records>>
    /\ UNCHANGED <<input_sudoku, diagonal, dims, prob, status, assignment, solution>>
    /\ UNCHANGED codecVars

BatchNext == OpenFile \/ ReadPuzzle \/ EndRead \/ SolvePuzzle \/ WriteFile

----------------------------------------------------------------------------
(* The input files: a count line and up to MaxPuzzles puzzle records, each  *)
(* a header, its rows and a blank line.                                     *)

MaxPuzzles == 3

Tok(v) == DigitsOf(v)

RowLine(values) == [c \in 1..Len(values) |-> Tok(values[c])]

\* a record in the documented format; `good` says whether it is well-formed
Record(n, flag, g, good) ==
    [lines |-> <<<<Tok(n), Tok(flag)>>>> \o [r \in 1..Len(g) |-> RowLine(g[r])] \o <<<<>>>>,
     good |-> good, n |-> n, flag |-> flag, grid |-> g]

\* a record given by its lines, never well-formed
BadRecord(lines) == [lines |-> lines, good |-> FALSE, n |-> 0, flag |-> 0, grid |-> <<>>]

GoodRecords ==
    { Record(1, 0, <<<<1>>>>, TRUE),
      Record(1, 1, <<<<0>>>>, TRUE),
      Record(4, 1, Mask(XGrid4, 4, 8), TRUE),
      Record(4, 0, Spoil(Pattern(4, 2, 0), 4), TRUE) }

BadRecords ==
    { Record(1, 0, <<<<2>>>>, FALSE),                             \* value out of range
      Record(2, 0, << <<1, 2>>, <<2, 1>> >>, FALSE),              \* dimension not a square
      Record(4, 0, << <<1, 2, 3, 4>>, <<3, 4, 1>>, <<2, 3, 4, 1>>, <<4, 1, 2, 3>> >>, FALSE),
      BadRecord(<< <<<<120>>, Tok(0)>>, <<Tok(1)>>, <<>> >>),     \* header "x 0"
      BadRecord(<< <<Tok(1), Tok(0)>>, <<<<65, 66>>>>, <<>> >>) } \* the symbol "AB"

RecordKinds == GoodRecords \cup BadRecords

RECURSIVE RecordLists(_)
RecordLists(k) ==
    IF k = 0 THEN {<<>>}
    ELSE RecordLists(k - 1)
         \cup {Append(rs, r) : rs \in {x \in RecordLists(k - 1) : Len(x) = k - 1},
                               r \in RecordKinds}

RECURSIVE LinesOf(_)
LinesOf(rs) == IF rs = <<>> THEN <<>> ELSE Head(rs).lines \o LinesOf(Tail(rs))

\* the line a record's header stands on
HeaderLine(rs, j) == 2 + Len(LinesOf(SubSeq(rs, 1, j - 1)))

BatchInit ==
    /\ pc = "open"
    /\ records \in RecordLists(MaxPuzzles)
    /\ \/ \E declared \in 0..(MaxPuzzles + 1) :
              file = FileOf(<<<<Tok(declared)>>>> \o LinesOf(records))
       \/ \E cut \in 1..2 :
              /\ Len(records) = 1
              /\ file = FileOf(SubSeq(<<<<Tok(1)>>>> \o LinesOf(records), 1,
                                      1 + Len(LinesOf(records)) - cut))
       \/ records = <<>> /\ file \in {NoFile, FileOf(<<>>), FileOf(<<<<<<120>>>>>>),
                                      FileOf(<<<<<<45, 49>>>>>>)}
    /\ fpos = 0 /\ num_sudokus = 0 /\ sudoku_index = 0
    /\ sudokus = <<>> /\ diagonal_flags = <<>> /\ origin = <<>>
    /\ solutions = <<>> /\ output = <<>>
    /\ input_sudoku = <<>>
    /\ diagonal = FALSE
    /\ dims = Idle
    /\ prob = {}
    /\ status = ""
    /\ assignment = {}
    /\ solution = None
    /\ exc = ""
    /\ cval = 0 /\ csym = None /\ ctext = <<>> /\ cback = Raise("")

BatchSpec == BatchInit /\ [][BatchNext]_vars

----------------------------------------------------------------------------
(* Claims about the batch reader and writer *)

\* the file holds exactly the records, and declares their number
FileAsDeclared ==
    /\ file.exists
    /\ file.lines = <<<<Tok(Len(records))>>>> \o LinesOf(records)

\* record j was read: a stored puzzle comes from its header line, holds its
\* grid and its flag, and was solved and reported
RecordWasRead(j) ==
    \E i \in 1..Len(sudokus) :
        /\ origin[i] = HeaderLine(records, j)
        /\ sudokus[i] = GridAs(records[j].grid, "int")
        /\ diagonal_flags[i] = (records[j].flag = 1)
        /\ i <= Len(solutions)
        /\ i <= Len(output)

\* C5: a parse or validation failure in one record is caught and the reader
\* goes on with the next puzzle: every well-formed record of the stream,
\* before and after the bad one, is still read, solved and reported.
C5_EveryWellFormedRecordIsRead ==
    (pc = "done" /\ FileAsDeclared)
        => \A j \in 1..Len(records) : records[j].good => RecordWasRead(j)

\* the completions the puzzle of a record has under its flag
RecordCompletions(rec) ==
    IF rec.flag = 1 THEN DiagonalCompletions(rec.grid, rec.n) ELSE Completions(rec.grid, rec.n)

\* the values a written block spells
BlockValues(b) ==
    [r \in 1..Len(b.rows) |-> [c \in 1..Len(b.rows[r]) |->
        convert_to_numeric(PyStr(b.rows[r][c])).v]]

\* block b reports the outcome of the puzzle of record rec
BlockReports(b, rec) ==
    IF rec.good /\ RecordCompletions(rec) # {}
    THEN b.found /\ BlockValues(b) \in RecordCompletions(rec)
    ELSE ~b.found

\* C6: main writes exactly one block per puzzle of the input file, in input
\* order, and the block headed i reports the outcome of the i-th puzzle of
\* the file, also when earlier puzzles were invalid or infeasible.
C6_OneBlockPerInputPuzzle ==
    (pc = "done" /\ FileAsDeclared)
        => /\ Len(output) = Len(records)
           /\ \A i \in 1..Len(output) :
                  output[i].index = i /\ BlockReports(output[i], records[i])

\* the header a stored puzzle was read from
HeaderOf(i) == ParseHeader(file.lines[origin[i]])

StoredPuzzleIsSound(i) ==
    LET dim == Len(sudokus[i])
    IN  /\ HeaderOf(i).ok
        /\ HeaderOf(i).dim = dim
        /\ diagonal_flags[i] = (HeaderOf(i).flag = 1)
        /\ PerfectSquare(dim)
        /\ \A r \in 1..dim :
               /\ Len(sudokus[i][r]) = dim
               /\ \A c \in 1..dim :
                      /\ sudokus[i][r][c].t = "int"
                      /\ sudokus[i][r][c].i >= 0
                      /\ sudokus[i][r][c].i <= dim

\* the number of iterations range(num_sudokus) has
Iterations == IF num_sudokus >= 0 THEN num_sudokus ELSE 0

\* the lists are aligned, and every stored puzzle is the one its header announces
ListsAligned ==
    /\ Len(sudokus) = Len(diagonal_flags)
    /\ Len(origin) = Len(sudokus)
    /\ \A i \in 1..Len(sudokus) : StoredPuzzleIsSound(i)

\* C10 as stated: in read_sudokus_from_file, whatever the file holds and
\* however many reads failed, sudokus and diagonal_flags have the same length,
\* at most the declared number; the i-th flag is the one of the header of the
\* i-th stored puzzle; every stored puzzle is a dim x dim grid of ints in
\* [0, dim] with dim a perfect square; and the loop ends after at most the
\* declared number of iterations, also when the file ends early.
C10_ListsWithinDeclaredCount ==
    /\ ListsAligned
    /\ Len(sudokus) <= num_sudokus
    /\ sudoku_index <= num_sudokus
    /\ pc \in {"solving", "done"} => sudoku_index = num_sudokus

\* C10, with the declared number read as range() reads it (a negative count
\* is no iteration): the lists are aligned and sound, hold at most
\* max(num_sudokus, 0) puzzles, one per successful iteration at most; the
\* loop never runs more than max(num_sudokus, 0) iterations and never reads
\* past the end of the file, and once it is left without an exception
\* escaping, exactly that many iterations were done.
C10_ReaderKeepsListsAlignedAndEnds ==
    /\ ListsAligned
    /\ Len(sudokus) <= sudoku_index
    /\ sudoku_index <= Iterations
    /\ fpos <= Len(file.lines)
    /\ pc \in {"solving", "done"} => sudoku_index = Iterations

\* four iterations over a file of three records: two puzzles stored with
\* different flags, one read failed, and the fourth iteration found the file
\* at its end
C10_Witness ==
    /\ pc = "solving"
    /\ num_sudokus = 4 /\ sudoku_index = 4
    /\ Len(records) = 3
    /\ Len(sudokus) = 2
    /\ diagonal_flags[1] # diagonal_flags[2]
    /\ fpos = Len(file.lines)

============================================================================
